---- MODULE Spec2Model ----
(***************************************************************************)
(* Model of src/taskpane/taskpane.js: the Markdown-to-Word task pane.      *)
(*                                                                         *)
(* A string is a sequence of one-character strings.  A DOM node is a       *)
(* record [tag, text, kids]: a text node has tag "#text" and carries its   *)
(* characters in text, an element carries its child nodes in kids.  A      *)
(* call of processNode is modelled by the sequence of host calls it makes, *)
(* in program order, with every `await context.sync()` as an entry of its  *)
(* own: these are the only points where an invocation is suspended and the *)
(* host decides between resolving and rejecting.                           *)
(***************************************************************************)
EXTENDS Integers, Sequences, FiniteSets

VARIABLES container, host, clicksLeft, calls, body

vars == <<container, host, clicksLeft, calls, body>>

(* ------------------------------ bounds -------------------------------- *)

MaxRows == 3
MaxCols == 3
MaxItems == 2
MaxDepth == 3
MaxKids == 2
MaxClicks == 2

(* ------------------------------ strings ------------------------------- *)

WhiteSpace == {" ", "\n", "nbsp"}

RECURSIVE TrimStart(_)
TrimStart(s) ==
  IF s # <<>> /\ Head(s) \in WhiteSpace THEN TrimStart(Tail(s)) ELSE s

RECURSIVE TrimEnd(_)
TrimEnd(s) ==
  IF s # <<>> /\ s[Len(s)] \in WhiteSpace
    THEN TrimEnd(SubSeq(s, 1, Len(s) - 1))
    ELSE s

\* String.prototype.trim
Trim(s) == TrimEnd(TrimStart(s))

\* String.prototype.repeat
RECURSIVE Repeat(_, _)
Repeat(s, n) == IF n <= 0 THEN <<>> ELSE s \o Repeat(s, n - 1)

Digits == <<"0", "1", "2", "3", "4", "5", "6", "7", "8", "9">>

\* the decimal digits of a template literal `${n}`
RECURSIVE numberToString(_)
numberToString(n) ==
  IF n < 10 THEN <<Digits[n + 1]>>
  ELSE numberToString(n \div 10) \o <<Digits[(n % 10) + 1]>>

RECURSIVE Flatten(_)
Flatten(ss) == IF ss = <<>> THEN <<>> ELSE Head(ss) \o Flatten(Tail(ss))

(* -------------------------------- DOM --------------------------------- *)

Text(s) == [tag |-> "#text", text |-> s, kids |-> <<>>]

Elem(tagName, childNodes) == [tag |-> tagName, text |-> <<>>, kids |-> childNodes]

isText(node) == node.tag = "#text"

\* Node.textContent: the concatenated text of the subtree
RECURSIVE textContent(_)
textContent(node) ==
  IF isText(node) THEN node.text
  ELSE Flatten([i \in 1..Len(node.kids) |-> textContent(node.kids[i])])

\* Element.children: the child nodes that are elements
children(node) ==
  LET RECURSIVE elems(_)
      elems(ks) ==
        IF ks = <<>> THEN <<>>
        ELSE (IF isText(Head(ks)) THEN <<>> ELSE <<Head(ks)>>) \o elems(Tail(ks))
  IN elems(node.kids)

\* Element.querySelectorAll for a list of tag names: the descendant
\* elements with one of the tags, in document (pre-)order
RECURSIVE querySelectorAll(_, _)
querySelectorAll(node, tags) ==
  Flatten([i \in 1..Len(node.kids) |->
    LET k == node.kids[i] IN
      IF isText(k) THEN <<>>
      ELSE (IF k.tag \in tags THEN <<k>> ELSE <<>>) \o querySelectorAll(k, tags)])

NoNode == [tag |-> "#null", text |-> <<>>, kids |-> <<>>]

\* Element.querySelector: the first match in document order, or null
querySelector(node, tags) ==
  LET all == querySelectorAll(node, tags)
  IN IF all = <<>> THEN NoNode ELSE Head(all)

\* Element.innerHTML: the serialisation of the child nodes.  A tag is
\* three atoms "<", name, ">"; a non-breaking space is the entity "&nbsp;"
RECURSIVE innerHTML(_)
innerHTML(node) ==
  Flatten([i \in 1..Len(node.kids) |->
    LET k == node.kids[i] IN
      IF isText(k)
        THEN [j \in 1..Len(k.text) |->
                IF k.text[j] = "nbsp" THEN "&nbsp;" ELSE k.text[j]]
      ELSE IF k.tag = "br" THEN <<"<", "br", ">">>
      ELSE <<"<", k.tag, ">">> \o innerHTML(k) \o <<"</", k.tag, ">">>])

\* rawHtml.replace(/<br\s*\/?>/gi, "").replace(/&nbsp;/gi, "")
RECURSIVE stripBrNbsp(_)
stripBrNbsp(s) ==
  IF s = <<>> THEN <<>>
  ELSE IF Len(s) >= 3 /\ SubSeq(s, 1, 3) = <<"<", "br", ">">>
    THEN stripBrNbsp(SubSeq(s, 4, Len(s)))
  ELSE IF Head(s) = "&nbsp;" THEN stripBrNbsp(Tail(s))
  ELSE <<Head(s)>> \o stripBrNbsp(Tail(s))

(* ----------------------------- host calls ------------------------------ *)

\* One entry of the sequence of host calls an invocation makes.  op names
\* the call; catch is meaningful for "sync" only: -1 when a rejection
\* propagates to the caller, otherwise the number of following entries the
\* enclosing try block still holds (skipped when the catch clause runs).
Call(op, text, style, rows, cols, values, catch) ==
  [op |-> op, text |-> text, style |-> style, rows |-> rows, cols |-> cols,
   values |-> values, catch |-> catch]

\* body.insertParagraph(text, end), with the style assigned to the result
insertParagraph(text, style) == Call("insertParagraph", text, style, 0, 0, <<>>, -1)

\* paragraph.insertHtml(rawHtml, replace)
insertHtml(rawHtml) == Call("insertHtml", rawHtml, "none", 0, 0, <<>>, -1)

\* body.insertTable(rows, cols, end, tableData)
insertTable(rows, cols, tableData) ==
  Call("insertTable", <<>>, "none", rows, cols, tableData, -1)

\* a property assignment or method call on a handle already returned
annotate(op, what) == Call(op, <<>>, what, 0, 0, <<>>, -1)

\* await context.sync()
sync(catch) == Call("sync", <<>>, "none", 0, 0, <<>>, catch)

\* an exception raised by the script itself
throw(what) == Call("throw", <<>>, what, 0, 0, <<>>, -1)

InsertOps == {"insertParagraph", "insertHtml", "insertTable"}

(* --------------------------- parseHTMLTable --------------------------- *)

\* rowDataOf without the trim: rowData.push(cellElem.textContent || " ")
rowDataOf_noTrim(cells) ==
  [c \in 1..Len(cells) |->
    LET t == textContent(cells[c]) IN IF t = <<>> THEN <<" ">> ELSE t]

\* the inner loop: rowData.push(cellElem.textContent.trim() || " ")
rowDataOf(cells) ==
  [c \in 1..Len(cells) |->
    LET t == Trim(textContent(cells[c])) IN IF t = <<>> THEN <<" ">> ELSE t]

\* the outer loop over rows: a row without cells is skipped (continue)
RECURSIVE tableDataOf(_)
tableDataOf(rows) ==
  IF rows = <<>> THEN <<>>
  ELSE LET cells == querySelectorAll(Head(rows), {"td", "th"})
       IN (IF Len(cells) = 0 THEN <<>> ELSE <<rowDataOf(cells)>>)
            \o tableDataOf(Tail(rows))

\* columnCheck without the comparison of the row lengths
columnCheck_noReject(tableData) ==
  IF tableData = <<>> THEN [ret |-> "TypeError", tableData |-> <<>>]
  ELSE [ret |-> "grid", tableData |-> tableData]

\* the column check: tableData[0].length raises a TypeError when tableData
\* is empty; otherwise every row must have the first row's length
columnCheck(tableData) ==
  IF tableData = <<>> THEN [ret |-> "TypeError", tableData |-> <<>>]
  ELSE LET colCount == Len(tableData[1]) IN
    IF \A r \in 1..Len(tableData) : Len(tableData[r]) = colCount
      THEN [ret |-> "grid", tableData |-> tableData]
      ELSE [ret |-> "null", tableData |-> <<>>]

parseHTMLTable(tableElem) ==
  LET rows == querySelectorAll(tableElem, {"tr"}) IN
    IF Len(rows) < 1 THEN [ret |-> "null", tableData |-> <<>>]
    ELSE columnCheck(tableDataOf(rows))

(* --------------------------- insertWordTable -------------------------- *)

BorderTypes == <<"insideHorizontal", "insideVertical", "top", "bottom", "left", "right">>

\* the first loop: a falsy cell becomes " "
fillEmptyCells(tableData) ==
  [r \in 1..Len(tableData) |->
     [c \in 1..Len(tableData[r]) |->
        IF tableData[r][c] = <<>> THEN <<" ">> ELSE tableData[r][c]]]

insertWordTable(tableData, h) ==
  LET data == fillEmptyCells(tableData)
      rows == Len(data)
      cols == Len(data[1])
  IN <<insertTable(rows, cols, data)>>
       \o (IF h.clearFormats THEN <<annotate("clearFormats", "table")>> ELSE <<>>)
       \o [b \in 1..Len(BorderTypes) |-> annotate("setBorderColor", BorderTypes[b])]
       \o <<annotate("load", "rows/items/cells/items"), sync(-1)>>
       \o (IF h.paragraphFormat THEN <<annotate("setSpacing", "tableRange")>> ELSE <<>>)
       \o <<sync(-1)>>

(* ----------------------------- processNode ---------------------------- *)

HeadingTags == {"h1", "h2", "h3"}
ListTags == {"ul", "ol"}
\* ContainerTags with one tag forgotten
ContainerTags_noArticle == {"div", "section"}

ContainerTags == {"div", "section", "article"}

headingStyle(tagName) ==
  IF tagName = "h1" THEN "heading1"
  ELSE IF tagName = "h2" THEN "heading2"
  ELSE "heading3"

\* the try block after a heading paragraph: a rejected sync is caught
headingSpacing(h) ==
  IF h.paragraphFormat
    THEN <<annotate("load", "paragraphFormat"), sync(2),
           annotate("setSpacing", "heading"), sync(0)>>
    ELSE <<annotate("load", "paragraphFormat"), sync(1), sync(0)>>

\* the bullet glyph U+2022, one character, written as an atom
bulletChar == "bullet"

listPrefix(isOrdered, i) ==
  IF isOrdered THEN numberToString(i) \o <<".">> ELSE <<bulletChar>>

\* li.firstChild?.textContent.trim() || ""
itemText(li) == IF li.kids = <<>> THEN <<>> ELSE Trim(textContent(li.kids[1]))

\* " ".repeat(level * 4) + listPrefix + " " + text
itemLine(level, prefix, text) == Repeat(<<" ">>, level * 4) \o prefix \o <<" ">> \o text

\* li.querySelector("ul, ol")
nestedListOf(li) == querySelector(li, ListTags)

RECURSIVE processNode(_, _, _)
RECURSIVE processChildNodes(_, _, _)
RECURSIVE processItems(_, _, _, _, _)

\* processItem with the recursion into the nested list moved before the
\* insert of the item's own paragraph
processItem_nestedFirst(li, i, isOrdered, level, h) ==
  LET nestedList == nestedListOf(li) IN
    (IF nestedList # NoNode THEN processNode(nestedList, level + 1, h) ELSE <<>>)
      \o <<insertParagraph(itemLine(level, listPrefix(isOrdered, i), itemText(li)),
                           "listParagraph")>>

\* one turn of the loop over the items of a list; i is the 1-based ordinal
processItem(li, i, isOrdered, level, h) ==
  LET nestedList == nestedListOf(li) IN
    <<insertParagraph(itemLine(level, listPrefix(isOrdered, i), itemText(li)),
                      "listParagraph")>>
      \o (IF nestedList # NoNode THEN processNode(nestedList, level + 1, h) ELSE <<>>)

processItems(items, i, isOrdered, level, h) ==
  IF i > Len(items) THEN <<>>
  ELSE processItem(items[i], i, isOrdered, level, h)
         \o processItems(items, i + 1, isOrdered, level, h)

\* for (let child of childNodes) await processNode(child, body, context, level)
processChildNodes(childNodes, level, h) ==
  IF childNodes = <<>> THEN <<>>
  ELSE processNode(Head(childNodes), level, h)
         \o processChildNodes(Tail(childNodes), level, h)

processNode(node, level, h) ==
  IF isText(node) THEN
    (IF Trim(node.text) # <<>> THEN <<insertParagraph(Trim(node.text), "none")>> ELSE <<>>)
  ELSE IF node.tag \in HeadingTags THEN
    (IF Trim(textContent(node)) = <<>> THEN <<>>
     ELSE <<insertParagraph(Trim(textContent(node)), headingStyle(node.tag))>>
            \o headingSpacing(h))
  ELSE IF node.tag \in ListTags THEN
    processItems(SelectSeq(children(node), LAMBDA e : e.tag = "li"), 1,
                 node.tag = "ol", level, h)
  ELSE IF node.tag = "table" THEN
    (LET parsed == parseHTMLTable(node) IN
       IF parsed.ret = "TypeError" THEN <<throw("TypeError")>>
       ELSE IF parsed.ret = "grid" THEN insertWordTable(parsed.tableData, h)
       ELSE <<>>)
  ELSE IF node.tag = "p" THEN
    (IF Trim(stripBrNbsp(innerHTML(node))) = <<>> THEN <<>>
     ELSE <<insertParagraph(<<>>, "none"), insertHtml(innerHTML(node))>>)
  ELSE IF node.tag \in ContainerTags THEN
    processChildNodes(node.kids, level, h)
  ELSE
    (IF Trim(textContent(node)) # <<>>
       THEN <<insertParagraph(Trim(textContent(node)), "none")>>
       ELSE <<>>)

(* ------------------------- convert and run ---------------------------- *)

\* the batch of convertMarkdownToWord: the loop over container.childNodes
\* at level 0, then the final await context.sync()
convertMarkdownToWord(childNodes, h) == processChildNodes(childNodes, 0, h) \o <<sync(-1)>>

HelloWorld == <<"H", "e", "l", "l", "o", " ", "W", "o", "r", "l", "d">>

\* the batch of run: one blue paragraph, then await context.sync()
run == <<insertParagraph(HelloWorld, "fontBlue"), sync(-1)>>

(* ------------------------------ inputs -------------------------------- *)

P(s) == Elem("p", <<Text(s)>>)

SeqsUpTo(S, n) == UNION {[1..k -> S] : k \in 0..n}

\* the text of a cell: one that trims to "a", one that trims to nothing
CellTexts == <<<<" ", "a", " ">>, <<" ">>>>

\* a row of n cells; the cell texts alternate, starting at shift
Row(cellTag, n, shift) ==
  Elem("tr", [c \in 1..n |-> Elem(cellTag, <<Text(CellTexts[((c + shift) % 2) + 1])>>)])

RowSpecs == (0..MaxCols) \X {0, 1}

\* a table as markdown-it lays it out: the first row in thead with th
\* cells, the others in tbody with td cells; with no row, a bare table
TableOf(rs) ==
  IF rs = <<>> THEN Elem("table", <<>>)
  ELSE Elem("table",
         <<Elem("thead", <<Row("th", rs[1][1], rs[1][2])>>),
           Elem("tbody", [r \in 1..(Len(rs) - 1) |-> Row("td", rs[r + 1][1], rs[r + 1][2])])>>)

Tables == {TableOf(rs) : rs \in SeqsUpTo(RowSpecs, MaxRows)}

TableDocs == {<<P(<<"p">>), t, P(<<"q">>)>> : t \in Tables}

Alphabet ==
  <<"a", "b", "c", "d", "e", "x", "y", "z", "w", "v",
    "k", "l", "m", "n", "o", "r", "s", "t", "u", "q">>

\* the letter of item i of a list at a nesting level: no letter is shared
\* between two levels
Letter(level, i) == Alphabet[(((level * 5) + ((i - 1) % 5)) % 20) + 1]

PlainItem(level, i) == Elem("li", <<Text(<<Letter(level, i), "\n">>)>>)

FlatList(tagName, n, level) == Elem(tagName, [i \in 1..n |-> PlainItem(level, i)])

\* the child nodes of an item that holds the nested list nested: after its
\* text, as its first child, or followed by a second nested list
ItemShapes(level, nested) ==
  {<<Text(<<Letter(level, 1), "\n">>), nested, Text(<<"\n">>)>>,
   <<nested, Text(<<"\n">>)>>,
   <<Text(<<Letter(level, 1), "\n">>), nested, FlatList("ol", 1, level + 1)>>}

RECURSIVE Lists(_, _)
Lists(depth, level) ==
  {FlatList(t, n, level) : t \in {"ul", "ol"}, n \in 0..MaxItems}
    \cup (IF depth <= 1 THEN {}
          ELSE UNION {{Elem(t, <<Elem("li", ks), PlainItem(level, 2)>>) :
                         t \in {"ul", "ol"}, ks \in ItemShapes(level, nested)} :
                       nested \in Lists(depth - 1, level + 1)})

ListDocs == {<<l>> : l \in Lists(MaxDepth, 0)}

Blocks ==
  {Text(<<" ", "t", " ">>), Text(<<"\n">>), P(<<"p">>),
   Elem("h2", <<Text(<<"h">>)>>), Elem("div", <<P(<<"q">>)>>)}

ContainerDocs ==
  {<<Elem(t, ks)>> :
     t \in {"div", "section", "article", "blockquote"}, ks \in SeqsUpTo(Blocks, MaxKids)}

HeadingDocs ==
  {before \o <<Elem(t, <<Text(s)>>)>> \o after :
     t \in {"h1", "h2", "h3"}, s \in {<<" ", "T", " ">>, <<" ">>},
     before \in {<<>>, <<P(<<"p">>)>>}, after \in {<<>>, <<P(<<"q">>)>>}}

ParagraphDocs ==
  {<<Elem("p", ks)>> :
     ks \in {<<>>, <<Text(<<"a">>)>>, <<Text(<<" ">>)>>, <<Elem("br", <<>>)>>,
             <<Text(<<"nbsp">>)>>,
             <<Text(<<"a">>), Elem("br", <<>>), Text(<<"b">>)>>,
             <<Elem("b", <<Text(<<"a">>)>>)>>}}

Docs == TableDocs \cup ListDocs \cup ContainerDocs \cup HeadingDocs \cup ParagraphDocs

ConcDocs == HeadingDocs \cup ParagraphDocs

Hosts == [paragraphFormat : BOOLEAN, clearFormats : BOOLEAN]

(* --------------------------- the state machine ------------------------ *)

\* An invocation of a button handler: the host calls of its batch (script),
\* the index of the next one (pc), the calls queued in its context since
\* its last sync (pending), and where it stands: suspended at a sync,
\* returned ("done") or rejected ("failed").  issued is the log of the
\* calls it has made; rejected and coreLost record what rejected syncs
\* discarded.
NewCall(kind, script) ==
  [kind |-> kind, script |-> script, pc |-> 1, pending |-> <<>>,
   status |-> "running", error |-> "none", issued |-> <<>>,
   rejected |-> <<>>, coreLost |-> FALSE]

\* run the invocation up to its next await context.sync(), its end or the
\* exception that ends it
RECURSIVE runToAwait(_)
runToAwait(c) ==
  IF c.pc > Len(c.script) THEN [c EXCEPT !.status = "done"]
  ELSE LET e == c.script[c.pc] IN
    IF e.op = "sync" THEN [c EXCEPT !.status = "awaitSync"]
    ELSE IF e.op = "throw" THEN [c EXCEPT !.status = "failed", !.error = e.style]
    ELSE runToAwait([c EXCEPT !.pc = @ + 1,
                              !.pending = Append(@, e),
                              !.issued = Append(@, e)])

\* a rejected sync: the queued calls are discarded; a catch clause resumes
\* after its try block, otherwise the rejection ends the invocation
rejectSync(c) ==
  LET e == c.script[c.pc]
      c1 == [c EXCEPT !.pending = <<>>,
                      !.rejected = c.pending,
                      !.coreLost = @ \/ (\E k \in 1..Len(c.pending) : c.pending[k].op \in InsertOps)]
  IN IF e.catch >= 0 THEN runToAwait([c1 EXCEPT !.pc = @ + 1 + e.catch])
     ELSE [c1 EXCEPT !.status = "failed", !.error = "SyncError"]

\* the task pane as loaded, with the rendered input in the container, and
\* a user who presses one button
Init ==
  /\ container \in Docs
  /\ host \in Hosts
  /\ clicksLeft = 1
  /\ calls = <<>>
  /\ body = <<>>

\* the same, with a user who presses buttons up to MaxClicks times, also
\* while an earlier invocation is suspended
InitConc ==
  /\ container \in ConcDocs
  /\ host \in Hosts
  /\ clicksLeft = MaxClicks
  /\ calls = <<>>
  /\ body = <<>>

\* the "Convert to Word" button
ClickConvert ==
  /\ clicksLeft > 0
  /\ clicksLeft' = clicksLeft - 1
  /\ calls' = Append(calls, runToAwait(NewCall("convert", convertMarkdownToWord(container, host))))
  /\ UNCHANGED <<container, host, body>>

\* the "Run" button
ClickRun ==
  /\ clicksLeft > 0
  /\ clicksLeft' = clicksLeft - 1
  /\ calls' = Append(calls, runToAwait(NewCall("run", run)))
  /\ UNCHANGED <<container, host, body>>

\* the host resolves the sync invocation i awaits: its queued calls reach
\* the document, in order, and the invocation resumes
SyncResolve(i) ==
  /\ calls[i].status = "awaitSync"
  /\ body' = body \o [k \in 1..Len(calls[i].pending) |-> [call |-> i, op |-> calls[i].pending[k]]]
  /\ calls' = [calls EXCEPT ![i] = runToAwait([@ EXCEPT !.pc = @ + 1, !.pending = <<>>])]
  /\ UNCHANGED <<container, host, clicksLeft>>

\* the host rejects the sync invocation i awaits
SyncReject(i) ==
  /\ calls[i].status = "awaitSync"
  /\ calls' = [calls EXCEPT ![i] = rejectSync(@)]
  /\ UNCHANGED <<container, host, clicksLeft, body>>

Next ==
  \/ ClickConvert
  \/ ClickRun
  \/ \E i \in 1..Len(calls) : SyncResolve(i)
  \/ \E i \in 1..Len(calls) : SyncReject(i)

Spec == Init /\ [][Next]_vars

SpecConc == InitConc /\ [][Next]_vars

(* ------------------------- notions of the claims ----------------------- *)

Convert(i) == calls[i].kind = "convert"

\* the insert calls (paragraph, html, table) among a sequence of host calls
Inserts(ops) == SelectSeq(ops, LAMBDA e : e.op \in InsertOps)

TableInserts(ops) == SelectSeq(ops, LAMBDA e : e.op = "insertTable")

ListParagraphs(ops) ==
  SelectSeq(ops, LAMBDA e : e.op = "insertParagraph" /\ e.style = "listParagraph")

\* what the document holds of invocation i
Committed(i) ==
  LET mine == SelectSeq(body, LAMBDA b : b.call = i)
  IN [k \in 1..Len(mine) |-> mine[k].op]

TopTables == SelectSeq(container, LAMBDA n : n.tag = "table")

NonTables == SelectSeq(container, LAMBDA n : n.tag # "table")

RowsOf(t) == querySelectorAll(t, {"tr"})

CellsOf(row) == querySelectorAll(row, {"td", "th"})

\* the number of cells of each row of a table, in source order
RowLengths(t) ==
  LET rows == RowsOf(t) IN [r \in 1..Len(rows) |-> Len(CellsOf(rows[r]))]

\* the rows that have cells do not all have the same number of cells
Ragged(t) ==
  LET lens == RowLengths(t) IN
    \E r1, r2 \in 1..Len(lens) : lens[r1] > 0 /\ lens[r2] > 0 /\ lens[r1] # lens[r2]

\* t occurs in s as a contiguous run
Contains(s, t) ==
  \E p \in 0..(Len(s) - Len(t)) : SubSeq(s, p + 1, p + Len(t)) = t

StartsWith(s, t) == Len(s) >= Len(t) /\ SubSeq(s, 1, Len(t)) = t

ItemsOf(list) == SelectSeq(children(list), LAMBDA e : e.tag = "li")

\* the text an item holds directly: its own text nodes, trimmed
DirectText(li) ==
  Trim(Flatten([k \in 1..Len(li.kids) |->
                  IF isText(li.kids[k]) THEN li.kids[k].text ELSE <<>>]))

\* the first ul/ol inside an item, in document order
FirstNested(li) ==
  LET ls == querySelectorAll(li, {"ul", "ol"}) IN IF ls = <<>> THEN NoNode ELSE ls[1]

\* the number of paragraphs a list yields when, of every item, the item
\* itself and its first nested list are rendered
RECURSIVE ParagraphCount(_)
ParagraphCount(list) ==
  LET items == ItemsOf(list)
      RECURSIVE sum(_)
      sum(i) ==
        IF i > Len(items) THEN 0
        ELSE 1 + (IF FirstNested(items[i]) = NoNode THEN 0
                  ELSE ParagraphCount(FirstNested(items[i]))) + sum(i + 1)
  IN sum(1)

\* the position, in the paragraphs of a list that start at start, of the
\* paragraph of item i
ItemPosition(list, start, i) ==
  LET items == ItemsOf(list)
      RECURSIVE before(_)
      before(j) ==
        IF j >= i THEN 0
        ELSE 1 + (IF FirstNested(items[j]) = NoNode THEN 0
                  ELSE ParagraphCount(FirstNested(items[j]))) + before(j + 1)
  IN start + before(1)

Ordinal(list, i) ==
  IF list.tag = "ol" THEN numberToString(i) \o <<".", " ">> ELSE <<"bullet", " ">>

\* In log, from position start on: the paragraph of every item of the list
\* is indented by 4 * level spaces and carries its ordinal or the bullet,
\* the paragraphs of its nested list follow it immediately, one level
\* deeper, and the next item's paragraph comes right after those.
RECURSIVE InterleavedAt(_, _, _, _)
InterleavedAt(list, level, start, log) ==
  \A i \in 1..Len(ItemsOf(list)) :
    LET k == ItemPosition(list, start, i)
        li == ItemsOf(list)[i]
    IN /\ k <= Len(log)
       /\ StartsWith(log[k].text, Repeat(<<" ">>, 4 * level) \o Ordinal(list, i))
       /\ FirstNested(li) # NoNode => InterleavedAt(FirstNested(li), level + 1, k + 1, log)

\* In log, from position start on: no item's paragraph holds the direct
\* text of an item nested inside it.
RECURSIVE OwnTextOnlyAt(_, _, _)
OwnTextOnlyAt(list, start, log) ==
  \A i \in 1..Len(ItemsOf(list)) :
    LET k == ItemPosition(list, start, i)
        li == ItemsOf(list)[i]
        inner == querySelectorAll(li, {"li"})
    IN /\ k <= Len(log)
       /\ \A n \in 1..Len(inner) :
            DirectText(inner[n]) # <<>> => ~Contains(log[k].text, DirectText(inner[n]))
       /\ FirstNested(li) # NoNode => OwnTextOnlyAt(FirstNested(li), k + 1, log)

\* every li of the subtree that is an item of some ul/ol, in document order
RECURSIVE AllItems(_)
AllItems(node) ==
  Flatten([k \in 1..Len(node.kids) |->
    LET e == node.kids[k] IN
      IF isText(e) THEN <<>>
      ELSE (IF e.tag = "li" /\ node.tag \in {"ul", "ol"} THEN <<e>> ELSE <<>>)
             \o AllItems(e)])

SingleList == Len(container) = 1 /\ container[1].tag \in {"ul", "ol"}

\* the container holds one element that is no text, heading, list, table
\* or paragraph, and that element has child nodes
SingleOther ==
  /\ Len(container) = 1
  /\ container[1].tag \notin {"#text", "h1", "h2", "h3", "ul", "ol", "table", "p"}
  /\ container[1].kids # <<>>

(* ------------------------------- claims -------------------------------- *)

\* C1: parseHTMLTable returns a grid or null for every table element and
\* never raises; in particular a table whose rows all have zero cells does
\* not abort the conversion with an error raised by the script.
C1_ParseNeverRaises ==
  \A i \in 1..Len(calls) : Convert(i) => calls[i].error # "TypeError"

\* C2: for a table whose rows with cells differ in length, no insertTable
\* is issued, nothing is raised, and every sibling block before and after
\* the table is issued, and is in the document once the conversion is done.
C2_RaggedTableSkipped ==
  \A i \in 1..Len(calls) :
    (Convert(i) /\ \E t \in 1..Len(TopTables) : Ragged(TopTables[t])) =>
      /\ TableInserts(calls[i].issued) = <<>>
      /\ calls[i].error # "TypeError"
      /\ Inserts(calls[i].issued) = Inserts(processChildNodes(NonTables, 0, host))
      /\ Len(Inserts(calls[i].issued)) = 2 * Len(NonTables)
      /\ calls[i].status = "done" => Inserts(Committed(i)) = Inserts(calls[i].issued)

\* C2 witness: a conversion of p, table with row lengths 2,2,3, p is done
\* with both paragraphs in the document and no table
C2_Witness ==
  \E i \in 1..Len(calls) :
    /\ Convert(i)
    /\ calls[i].status = "done"
    /\ Len(TopTables) = 1
    /\ RowLengths(TopTables[1]) = <<2, 2, 3>>
    /\ Len(Inserts(Committed(i))) = 4
    /\ TableInserts(Committed(i)) = <<>>

\* C3: the grid handed to body.insertTable has one row per source row that
\* has cells, in source order, every row as long as the column count, every
\* cell the trimmed text of its source cell or one space, none empty.
C3_GridShape ==
  \A i \in 1..Len(calls) :
    Convert(i) =>
      /\ Len(TableInserts(calls[i].issued)) <= Len(TopTables)
      /\ \A k \in 1..Len(TableInserts(calls[i].issued)) :
           LET e == TableInserts(calls[i].issued)[k]
               g == e.values
               kept == SelectSeq(RowsOf(TopTables[k]), LAMBDA r : Len(CellsOf(r)) > 0)
           IN /\ Len(g) = Len(kept)
              /\ e.rows = Len(g)
              /\ \A r \in 1..Len(g) :
                   /\ Len(g[r]) = e.cols
                   /\ Len(g[r]) = Len(CellsOf(kept[r]))
                   /\ \A c \in 1..Len(g[r]) :
                        /\ g[r][c] # <<>>
                        /\ g[r][c] = (IF Trim(textContent(CellsOf(kept[r])[c])) = <<>>
                                        THEN <<" ">>
                                        ELSE Trim(textContent(CellsOf(kept[r])[c])))

\* C3 witness: a table of three rows, the second without cells, is in the
\* document as a grid of two rows of two cells, one of them a single space
C3_Witness ==
  \E i \in 1..Len(calls) :
    /\ Convert(i)
    /\ Len(TopTables) = 1
    /\ RowLengths(TopTables[1]) = <<2, 0, 2>>
    /\ \E k \in 1..Len(Committed(i)) :
         /\ Committed(i)[k].op = "insertTable"
         /\ Committed(i)[k].rows = 2
         /\ Committed(i)[k].cols = 2
         /\ Committed(i)[k].values[1] = <<<<" ">>, <<"a">>>>

\* C4: the paragraphs of a list come in the order item, paragraphs of the
\* item's nested list one level deeper (4 more spaces, an ordered list
\* numbered from 1), next sibling item.
C4_NestedOrder ==
  \A i \in 1..Len(calls) :
    (Convert(i) /\ SingleList) =>
      /\ Len(ListParagraphs(calls[i].issued)) = ParagraphCount(container[1])
      /\ InterleavedAt(container[1], 0, 1, ListParagraphs(calls[i].issued))

\* C4 witness: ul [a [ol x, y], b] is in the document as
\* "* a", "    1. x", "    2. y", "* b"
C4_Witness ==
  \E i \in 1..Len(calls) :
    /\ Convert(i)
    /\ calls[i].status = "done"
    /\ container =
         <<Elem("ul", <<Elem("li", <<Text(<<"a", "\n">>), FlatList("ol", 2, 1), Text(<<"\n">>)>>),
                        Elem("li", <<Text(<<"b", "\n">>)>>)>>)>>
    /\ [k \in 1..Len(Committed(i)) |-> Committed(i)[k].text] =
         << <<"bullet", " ", "a">>,
            <<" ", " ", " ", " ", "1", ".", " ", "x">>,
            <<" ", " ", " ", " ", "2", ".", " ", "y">>,
            <<"bullet", " ", "b">> >>

\* C5: a rejected sync that carries nothing but a cosmetic adjustment
\* (spacing, cleared formats) never ends the conversion as failed.
C5_CosmeticNeverEscalates ==
  \A i \in 1..Len(calls) :
    (Convert(i) /\ calls[i].status = "failed" /\ calls[i].error = "SyncError") =>
      ~ /\ calls[i].rejected # <<>>
        /\ \A k \in 1..Len(calls[i].rejected) :
             calls[i].rejected[k].op \in {"setSpacing", "clearFormats"}

\* C6: once a rejected sync has discarded an insert of a paragraph or of a
\* table, the conversion has failed: it neither goes on nor reports success.
C6_CoreFailureEscalates ==
  \A i \in 1..Len(calls) :
    (Convert(i) /\ calls[i].coreLost) => calls[i].status = "failed"

\* C7 as claimed: every element that is no heading, list, table or
\* paragraph and has children is walked child by child at the same level:
\* the inserts of a finished conversion are those of its children.
C7_EveryOtherElementRecurses ==
  \A i \in 1..Len(calls) :
    (Convert(i) /\ calls[i].status = "done" /\ SingleOther) =>
      Inserts(calls[i].issued) = Inserts(processChildNodes(container[1].kids, 0, host))

\* C7 as amended: a div, section or article is walked child by child at the
\* same level; any other element that is no heading, list, table or
\* paragraph yields at most one plain paragraph, its trimmed text content.
C7_ContainersRecurse ==
  \A i \in 1..Len(calls) :
    (Convert(i) /\ calls[i].status = "done" /\ SingleOther) =>
      IF container[1].tag \in {"div", "section", "article"}
        THEN Inserts(calls[i].issued) = Inserts(processChildNodes(container[1].kids, 0, host))
        ELSE Inserts(calls[i].issued) =
               (IF Trim(textContent(container[1])) = <<>> THEN <<>>
                ELSE <<insertParagraph(Trim(textContent(container[1])), "none")>>)

\* C7 witness: an article holding a paragraph and a heading is in the
\* document as the paragraph's two inserts and the heading's one
C7_Witness ==
  \E i \in 1..Len(calls) :
    /\ Convert(i)
    /\ calls[i].status = "done"
    /\ container = <<Elem("article", <<P(<<"p">>), Elem("h2", <<Text(<<"h">>)>>)>>)>>
    /\ [k \in 1..Len(Inserts(Committed(i))) |-> Inserts(Committed(i))[k].op] =
         <<"insertParagraph", "insertHtml", "insertParagraph">>

\* C8: no two invocations are in flight at once: while one is suspended at
\* a sync with calls of its own made, no other has made calls and is
\* suspended too.
C8_OneFlowAtATime ==
  \A i, j \in 1..Len(calls) :
    i # j =>
      ~ /\ calls[i].status = "awaitSync" /\ calls[i].issued # <<>>
        /\ calls[j].status = "awaitSync" /\ calls[j].issued # <<>>

\* C9: the paragraph of a list item never holds the text of an item of a
\* list nested inside it.
C9_OwnTextOnly ==
  \A i \in 1..Len(calls) :
    (Convert(i) /\ SingleList) =>
      OwnTextOnlyAt(container[1], 1, ListParagraphs(calls[i].issued))

\* C10: every li that is an item of a ul/ol in the subtree of a top-level
\* list yields exactly one list paragraph, in document order.
C10_EveryItemOnce ==
  \A i \in 1..Len(calls) :
    (Convert(i) /\ SingleList) =>
      LET log == ListParagraphs(calls[i].issued)
          items == AllItems(container[1])
      IN /\ Len(log) = Len(items)
         /\ \A k \in 1..Len(items) : Contains(log[k].text, DirectText(items[k]))

====
